---------------------------- MODULE Spec2Model ----------------------------
(***************************************************************************)
(* A model of the mwmbl ranker (src/src/lib.rs): a Ranker session compiles *)
(* a query into a whole-word alternation pattern, accumulates normalized   *)
(* search results and ranks them by a score built from per-field match     *)
(* features.                                                               *)
(*                                                                         *)
(* Strings are sequences of bytes.  An ASCII byte is written as its        *)
(* character; a byte of a multi-byte UTF-8 character is written "xHH".     *)
(* The non-ASCII characters of the model are                               *)
(*     e-acute   C3 A9      a lower-case letter                            *)
(*     I-dot     C4 B0      an upper-case letter whose lower case is       *)
(*                          "i" followed by U+0307 (CC 87): three bytes    *)
(*     euro      E2 82 AC   a symbol, not a word character                 *)
(***************************************************************************)
EXTENDS Integers, Sequences, FiniteSets, TLC

VARIABLES
    pc,                           \* "start": no Ranker yet; "live"; "panicked"
    query,                        \* Ranker.query
    total_possible_match_length,  \* Ranker.total_possible_match_length (u8)
    num_unique_terms,             \* Ranker.num_unique_terms (u8)
    query_regex,                  \* Ranker.query_regex: the pattern text
    search_results,               \* Ranker.search_results
    raw_inputs,                   \* history: the arguments of each add_search_result
    scored_results,               \* rank(): the sorted Vec<(&SearchResult, f32)>
    all_features,                 \* rank(): the Features get_features built per result
    ranked,                       \* the JsValue the last rank() returned
    last_op,                      \* history: the last operation that ran
    rank_calls                    \* history: rank() calls since the last add, up to 2

vars == <<pc, query, total_possible_match_length, num_unique_terms, query_regex,
          search_results, raw_inputs, scored_results, all_features, ranked, last_op,
          rank_calls>>

-----------------------------------------------------------------------------
(* Program constants *)

MAX_URL_LENGTH == 200
MAX_TITLE_LENGTH == 100
MAX_EXTRACT_LENGTH == 200
U8_MAX == 255

MISSING_URL == <<"h","t","t","p","s",":","/","/","_",".","c","o","m">>

-----------------------------------------------------------------------------
(* Bytes and characters *)

AsciiUpper == <<"A","B","C","D","E","F","G","H","I","J","K","L","M",
                "N","O","P","Q","R","S","T","U","V","W","X","Y","Z">>
AsciiLower == <<"a","b","c","d","e","f","g","h","i","j","k","l","m",
                "n","o","p","q","r","s","t","u","v","w","x","y","z">>
AsciiDigit == {"0","1","2","3","4","5","6","7","8","9"}

Range(s) == {s[i] : i \in 1..Len(s)}

Min(a, b) == IF a <= b THEN a ELSE b

\* UTF-8 continuation bytes (10xxxxxx) of the model's characters.
ContinuationBytes == {"xA9", "xB0", "x87", "x82", "xAC"}

\* Bytes of the characters the pattern engine's \w class holds: ASCII letters,
\* digits and underscore, and the bytes of e-acute, I-dot and U+0307.
WordBytes ==
    Range(AsciiUpper) \cup Range(AsciiLower) \cup AsciiDigit \cup {"_"}
        \cup {"xC3", "xA9", "xC4", "xB0", "xCC", "x87"}

\* char::is_whitespace, on the model's bytes.
WhitespaceBytes == {" ", "\t", "\n"}

\* regex_syntax::is_meta_character: what regex::escape puts a backslash before.
MetaBytes == {"\\", ".", "+", "*", "?", "(", ")", "|", "[", "]", "{", "}",
              "^", "$", "#", "&", "-", "~"}

\* str::is_char_boundary
is_char_boundary(s, index) ==
    IF index = 0 THEN TRUE
    ELSE IF index >= Len(s) THEN index = Len(s)
    ELSE s[index + 1] \notin ContinuationBytes

\* lo..hi folded left to right, by halves: Op(hi, ... Op(lo, acc)).  The test
\* on `left` has the left half evaluated before the right half is entered.
RECURSIVE FoldRange(_, _, _, _)
FoldRange(Op(_, _), lo, hi, acc) ==
    IF lo > hi THEN acc
    ELSE IF lo = hi THEN Op(lo, acc)
    ELSE LET mid  == (lo + hi) \div 2
             left == FoldRange(Op, lo, mid, acc)
         IN  IF left = left THEN FoldRange(Op, mid + 1, hi, left) ELSE left

\* Piece(lo) \o ... \o Piece(hi), by halves.
RECURSIVE ConcatRange(_, _, _)
ConcatRange(Piece(_), lo, hi) ==
    IF lo > hi THEN <<>>
    ELSE IF lo = hi THEN Piece(lo)
    ELSE LET mid == (lo + hi) \div 2
         IN  ConcatRange(Piece, lo, mid) \o ConcatRange(Piece, mid + 1, hi)

\* <<F(1), ..., F(n)>>
MapRange(F(_), n) == ConcatRange(LAMBDA i : <<F(i)>>, 1, n)

MinOf(S) == CHOOSE x \in S : \A y \in S : x <= y

Rep(c, n) == [i \in 1..n |-> c]

IndexOf(seq, x) == CHOOSE i \in 1..Len(seq) : seq[i] = x

\* What str::to_lowercase writes for the byte at i: the lower-case letter of an
\* ASCII upper-case letter, the three bytes of "i" U+0307 for I-dot (at its
\* first byte, nothing at its second), and any other byte as it is.
lower_piece(s, i) ==
    IF s[i] \in Range(AsciiUpper) THEN <<AsciiLower[IndexOf(AsciiUpper, s[i])]>>
    ELSE IF s[i] = "xC4" /\ i < Len(s) /\ s[i + 1] = "xB0" THEN <<"i", "xCC", "x87">>
    ELSE IF s[i] = "xB0" /\ i > 1 /\ s[i - 1] = "xC4" THEN <<>>
    ELSE <<s[i]>>

\* str::to_lowercase
to_lowercase(s) == ConcatRange(LAMBDA i : lower_piece(s, i), 1, Len(s))

-----------------------------------------------------------------------------
(* ResultNormalizer: shorten_string and SearchResult::new *)

RECURSIVE shorten_end(_, _)
shorten_end(s, end) ==
    IF is_char_boundary(s, end) THEN end ELSE shorten_end(s, end - 1)

\* A slip that cuts at max_length wherever it falls.
shorten_string_bytes(s, max_length) ==
    IF Len(s) <= max_length THEN s ELSE SubSeq(s, 1, max_length)

shorten_string(s, max_length) ==
    IF Len(s) <= max_length THEN s
    ELSE SubSeq(s, 1, shorten_end(s, max_length))

\* ArrayString::<CAP>::from(s): an error when s does not fit.
ArrayString_from_ok(s, cap) == Len(s) <= cap

SearchResult_new_ok(url, title, extract) ==
    /\ ArrayString_from_ok(shorten_string(url, MAX_URL_LENGTH), MAX_URL_LENGTH)
    /\ ArrayString_from_ok(shorten_string(title, MAX_TITLE_LENGTH), MAX_TITLE_LENGTH)
    /\ ArrayString_from_ok(shorten_string(extract, MAX_EXTRACT_LENGTH), MAX_EXTRACT_LENGTH)

SearchResult_new(url, title, extract) ==
    [url     |-> shorten_string(url, MAX_URL_LENGTH),
     title   |-> shorten_string(title, MAX_TITLE_LENGTH),
     extract |-> shorten_string(extract, MAX_EXTRACT_LENGTH)]

-----------------------------------------------------------------------------
(* QueryCompiler: get_query_regex *)

\* str::split_whitespace: the maximal runs of non-whitespace bytes, in order.
is_word_start(s, i) == s[i] \notin WhitespaceBytes /\ (i = 1 \/ s[i - 1] \in WhitespaceBytes)

is_word_end(s, j) == j = Len(s) \/ s[j + 1] \in WhitespaceBytes

word_end(s, i) ==
    CHOOSE j \in i..Len(s) : is_word_end(s, j) /\ \A k \in i..(j - 1) : ~is_word_end(s, k)

split_whitespace(s) ==
    ConcatRange(LAMBDA i : IF is_word_start(s, i)
                           THEN <<SubSeq(s, i, word_end(s, i))>> ELSE <<>>,
                1, Len(s))

\* regex::escape
regex_escape(word) ==
    ConcatRange(LAMBDA i : IF word[i] \in MetaBytes THEN <<"\\", word[i]>>
                           ELSE <<word[i]>>,
                1, Len(word))

\* The HashSet<String> of escaped words.
unique_query_terms(q) ==
    {regex_escape(w) : w \in Range(split_whitespace(q))}

\* [String]::join
join(parts, sep) ==
    ConcatRange(LAMBDA k : IF k = 1 THEN parts[k] ELSE sep \o parts[k], 1, Len(parts))

\* terms.iter().map(|term| term.len()).sum()
SumLen(parts) == FoldRange(LAMBDA k, acc : acc + Len(parts[k]), 1, Len(parts), 0)

\* A slip that narrows with `as u8`, which wraps.
u8_wrap(n) == n % (U8_MAX + 1)

\* u8::try_from(n).unwrap_or(u8::MAX)
u8_saturate(n) == IF n <= U8_MAX THEN n ELSE U8_MAX

\* get_query_regex, given the order `terms` in which the HashSet is iterated.
get_query_regex(terms) ==
    [regex            |-> <<"\\","b">> \o join(terms, <<"\\","b","|","\\","b">>)
                                       \o <<"\\","b">>,
     num_unique_terms |-> u8_saturate(Len(terms)),
     term_length_sum  |-> u8_saturate(SumLen(terms))]


-----------------------------------------------------------------------------
(* The pattern engine: Regex::new and Regex::find_iter on the patterns that  *)
(* get_query_regex builds (word-boundary assertions, literals, alternation). *)

\* An item of an alternative: the assertion \b or a literal byte, with the
\* number of literal bytes before it in its alternative.
WB(off) == [kind |-> "wb", byte |-> "", off |-> off]
Lit(b, off) == [kind |-> "lit", byte |-> b, off |-> off]

\* The parser at byte i of pattern p.  A backslash takes the next byte: \b is
\* the word-boundary assertion, any other escaped byte is that literal byte;
\* an unescaped | closes the alternative.
parse_step(p, i, st) ==
    IF st.esc
    THEN IF p[i] = "b"
         THEN [st EXCEPT !.esc = FALSE, !.cur = Append(@, WB(st.len))]
         ELSE [st EXCEPT !.esc = FALSE, !.cur = Append(@, Lit(p[i], st.len)),
                         !.len = @ + 1]
    ELSE IF p[i] = "\\" THEN [st EXCEPT !.esc = TRUE]
    ELSE IF p[i] = "|"
         THEN [st EXCEPT !.alts = Append(@, [items |-> st.cur, len |-> st.len]),
                         !.cur = <<>>, !.len = 0]
    ELSE [st EXCEPT !.cur = Append(@, Lit(p[i], st.len)), !.len = @ + 1]

\* Regex::new: the alternatives of the pattern, in order.
Regex_new(pattern) ==
    LET st == FoldRange(LAMBDA i, acc : parse_step(pattern, i, acc), 1, Len(pattern),
                        [alts |-> <<>>, cur |-> <<>>, len |-> 0, esc |-> FALSE])
    IN  Append(st.alts, [items |-> st.cur, len |-> st.len])

\* \b at byte offset p of text: exactly one side is a word character.
word_boundary(text, p) ==
    (p > 0 /\ text[p] \in WordBytes) # (p < Len(text) /\ text[p + 1] \in WordBytes)

\* Whether the alternative matches at offset p: each item holds at the offset
\* the literals before it have advanced to.
matches_at(alt, text, p) ==
    \A k \in 1..Len(alt.items) :
        LET it == alt.items[k]
        IN  IF it.kind = "wb" THEN word_boundary(text, p + it.off)
            ELSE p + it.off < Len(text) /\ text[p + it.off + 1] = it.byte

\* Leftmost-first: the end of the first alternative that matches at offset p,
\* or -1.
match_at(alts, text, p) ==
    LET ok == {a \in 1..Len(alts) : matches_at(alts[a], text, p)}
    IN  IF ok = {} THEN -1 ELSE p + alts[MinOf(ok)].len

\* The search at offset s: offsets before st.next lie inside the last match.
\* After an empty match the search resumes one byte on (an offset inside a
\* character is never a word boundary, so no match starts there).
find_step(alts, text, s, st) ==
    LET e == match_at(alts, text, s)
    IN  IF s < st.next \/ e < 0 THEN st
        ELSE [matches |-> Append(st.matches, [start |-> s, end |-> e]),
              next    |-> IF e = s THEN s + 1 ELSE e]

\* Regex::find_iter: the successive non-overlapping matches, left to right.
find_iter(pattern, text) ==
    LET alts == Regex_new(pattern)
    IN  FoldRange(LAMBDA s, acc : find_step(alts, text, s, acc), 0, Len(text),
                  [matches |-> <<>>, next |-> 0]).matches

\* Match::as_str
as_str(text, m) == SubSeq(text, m.start + 1, m.end)

-----------------------------------------------------------------------------
(* Url::parse, Url::domain and Url::path of the url crate, on the inputs of  *)
(* the model: "https://" host path, with host over ASCII letters, ".", "-",  *)
(* "_" and path over ASCII letters, "/", "-", "_", "+" (no port, user info,  *)
(* query, fragment, dot segment, digit or byte that the parser would         *)
(* percent-encode), and strings without a scheme, which do not parse.        *)

HttpsPrefix == <<"h","t","t","p","s",":","/","/">>

HostBytes == Range(AsciiUpper) \cup Range(AsciiLower) \cup {".", "-", "_"}
PathBytes == Range(AsciiUpper) \cup Range(AsciiLower) \cup {"/", "-", "_", "+"}

has_prefix(s, pre) == Len(s) >= Len(pre) /\ SubSeq(s, 1, Len(pre)) = pre

\* The first index i >= from with s[i] = b, or Len(s) + 1.
index_of_byte(s, b, from) ==
    LET at == {i \in from..Len(s) : s[i] = b}
    IN  IF at = {} THEN Len(s) + 1 ELSE MinOf(at)

url_host(s) ==
    SubSeq(s, Len(HttpsPrefix) + 1, index_of_byte(s, "/", Len(HttpsPrefix) + 1) - 1)

url_rest(s) == SubSeq(s, index_of_byte(s, "/", Len(HttpsPrefix) + 1), Len(s))

\* The strings on which Url_parse below is the url crate's behaviour.
UrlModelled(s) ==
    \/ ":" \notin Range(s)
    \/ /\ has_prefix(s, HttpsPrefix)
       /\ Range(url_host(s)) \subseteq HostBytes
       /\ Range(url_rest(s)) \subseteq PathBytes

\* Url::parse: Err without a scheme (RelativeUrlWithoutBase) and with an empty
\* host (EmptyHost); the host is lower-cased, an empty path is "/".
Url_parse(s) ==
    IF has_prefix(s, HttpsPrefix) /\ url_host(s) # <<>>
    THEN [ok     |-> TRUE,
          domain |-> to_lowercase(url_host(s)),
          path   |-> IF url_rest(s) = <<>> THEN <<"/">> ELSE url_rest(s)]
    ELSE [ok |-> FALSE, domain |-> <<>>, path |-> <<>>]

\* Url::parse(url).unwrap_or(Url::parse(MISSING_URL).unwrap())
parsed_url_of(url) ==
    IF Url_parse(url).ok THEN Url_parse(url) ELSE Url_parse(MISSING_URL)


-----------------------------------------------------------------------------
(* Floating point.  A field score is kept as the exact quotient 2^exp / div  *)
(* together with the class of the f32 it narrows to.  A result's score is    *)
(* kept in fixed point: an approximation of the f32 arithmetic that keeps    *)
(* its special values (infinity, NaN) and its order up to the resolution.    *)

RECURSIVE Pow2(_)
Pow2(n) == IF n <= 0 THEN 1 ELSE 2 * Pow2(n - 1)

\* (2^exp / div) as f32.  Division by zero gives +inf.  The quotient rounds
\* to 0 when it is at most 2^-150, half the least positive f32 (ties to even),
\* that is when div * 2^(-exp) >= 2^150; it overflows to +inf from 2^128 on.
f32_class(exp, div) ==
    IF div = 0 THEN "inf"
    ELSE IF -exp >= 150 THEN "zero"
    ELSE IF -exp >= 142 /\ div >= Pow2(150 + exp) THEN "zero"
    ELSE IF exp >= 136 THEN "inf"
    ELSE IF exp >= 128 /\ Pow2(exp - 128) >= div THEN "inf"
    ELSE "pos"

\* f64::powf(MATCH_EXPONENT, length - total_possible_length) / last_char, as f32
field_score(length, total_possible_length, last_char) ==
    [class |-> f32_class(length - total_possible_length, last_char),
     exp   |-> length - total_possible_length,
     div   |-> last_char]

FxNaN == [class |-> "nan", v |-> 0]
FxInf == [class |-> "inf", v |-> 0]
Fx(v) == [class |-> "num", v |-> v]

\* A field score in fixed point, 4096 to the unit.  The range ends at 1: a
\* quotient above 1 is held at 1.
to_fixed(score) ==
    IF score.class = "inf" THEN FxInf
    ELSE IF score.class = "zero" THEN Fx(0)
    ELSE IF score.exp >= 0 THEN Fx(4096 \div score.div)
    ELSE IF -score.exp > 12 THEN Fx(0)
    ELSE Fx((4096 \div Pow2(-score.exp)) \div score.div)

fx_add(a, b) ==
    IF a.class = "nan" \/ b.class = "nan" THEN FxNaN
    ELSE IF a.class = "inf" \/ b.class = "inf" THEN FxInf
    ELSE Fx(a.v + b.v)

\* k * a for a constant k > 0
fx_times(k, a) == IF a.class = "num" THEN Fx(k * a.v) ELSE a

\* a * b; inf * 0 is NaN
fx_mul(a, b) ==
    IF a.class = "nan" \/ b.class = "nan" THEN FxNaN
    ELSE IF a.class = "inf" THEN (IF b.class = "num" /\ b.v = 0 THEN FxNaN ELSE FxInf)
    ELSE IF b.class = "inf" THEN (IF a.v = 0 THEN FxNaN ELSE FxInf)
    ELSE Fx(a.v * b.v)

\* a / k for a constant k > 0
fx_div(a, k) == IF a.class = "num" THEN Fx(a.v \div k) ELSE a

\* f32::exp(-0.04 * n) in fixed point, 32768 to the unit: e^-0.04 is
\* 31483 / 32768, applied n times and rounded to nearest.  Positive for every n.
exp_decay(n) ==
    FoldRange(LAMBDA i, acc : (acc * 31483 + 16384) \div 32768, 1, n, 32768)

\* f32::partial_cmp: None when either side is NaN.
partial_cmp(a, b) ==
    IF a.class = "nan" \/ b.class = "nan" THEN "None"
    ELSE IF a.class = "inf" THEN (IF b.class = "inf" THEN "Equal" ELSE "Greater")
    ELSE IF b.class = "inf" THEN "Less"
    ELSE IF a.v < b.v THEN "Less"
    ELSE IF a.v > b.v THEN "Greater"
    ELSE "Equal"

-----------------------------------------------------------------------------
(* FeatureExtractor: get_features *)

\* A slip that counts a repeated match again.
scan_step_counting_repeats(text, m, acc) ==
    [last_match_char |-> m.end,
     seen_terms      |-> acc.seen_terms \cup {as_str(text, m)},
     match_length    |-> acc.match_length + (m.end - m.start)]

\* A slip that records the end of every match, seen before or not.
scan_step_every_end(text, m, acc) ==
    IF as_str(text, m) \in acc.seen_terms
    THEN [acc EXCEPT !.last_match_char = m.end]
    ELSE [last_match_char |-> m.end,
          seen_terms      |-> acc.seen_terms \cup {as_str(text, m)},
          match_length    |-> acc.match_length + (m.end - m.start)]

\* The body of `for m in matches`: acc holds last_match_char, seen_terms and
\* match_length.
scan_step(text, m, acc) ==
    IF as_str(text, m) \in acc.seen_terms THEN acc
    ELSE [last_match_char |-> m.end,
          seen_terms      |-> acc.seen_terms \cup {as_str(text, m)},
          match_length    |-> acc.match_length + (m.end - m.start)]

\* for m in matches { ... }
scan_matches(text, matches) ==
    FoldRange(LAMBDA k, acc : scan_step(text, matches[k], acc), 1, Len(matches),
              [last_match_char |-> 1, seen_terms |-> {}, match_length |-> 0])

\* A slip that scans the field text as it is.
part_lower_as_is(part) == part

\* let part_lower = part.to_lowercase(), for each of the four parts
part_lower_of(part) == to_lowercase(part)

\* The MatchFeatures record, from the three saturated counters.
MatchFeatures(last_match_char, match_length, num_terms, total_possible_length, n_unique_terms) ==
    [last_char             |-> last_match_char,
     length                |-> match_length,
     total_possible_length |-> total_possible_length,
     num_terms             |-> num_terms,
     score                 |-> field_score(match_length, total_possible_length,
                                           last_match_char),
     term_proportion       |-> [num |-> num_terms, den |-> n_unique_terms]]

\* The end of one round of the loop: the counters narrowed to u8.
features_of_scan(acc, total_possible_length, n_unique_terms) ==
    MatchFeatures(u8_saturate(acc.last_match_char), u8_saturate(acc.match_length),
                  u8_saturate(Cardinality(acc.seen_terms)),
                  total_possible_length, n_unique_terms)

\* One round of the loop over the four parts, from the scan of part_lower on.
text_features(regex, part_lower, total_possible_length, n_unique_terms) ==
    features_of_scan(scan_matches(part_lower, find_iter(regex, part_lower)),
                     total_possible_length, n_unique_terms)

\* One round of the loop over the four parts.
match_features(regex, part, total_possible_length, n_unique_terms) ==
    text_features(regex, part_lower_of(part), total_possible_length, n_unique_terms)

\* A slip that takes the domain of a failed parse to be empty.
url_domain_empty_on_error(url) ==
    IF Url_parse(url).ok THEN Url_parse(url).domain ELSE <<>>

\* parsed_url.domain().unwrap_or("")
url_domain(url) == parsed_url_of(url).domain

\* parsed_url.path()
url_path(url) == parsed_url_of(url).path

\* The four parts the loop runs over: title, extract, domain, path.
parts_of(search_result) ==
    <<search_result.title, search_result.extract,
      url_domain(search_result.url), url_path(search_result.url)>>

features_of_parts(f) ==
    [title_match |-> f[1], extract_match |-> f[2],
     domain_match |-> f[3], path_match |-> f[4]]

get_features(regex, search_result, total_possible_length, n_unique_terms) ==
    features_of_parts(
        MapRange(LAMBDA k : match_features(regex, parts_of(search_result)[k],
                                           total_possible_length, n_unique_terms),
                 4))

-----------------------------------------------------------------------------
(* Scorer: score_result *)

\* 4.0 * title + extract + 4.0 * domain + 2.0 * path
match_score_of(title, extract, domain, path) ==
    fx_add(fx_add(fx_add(fx_times(4, title), extract), fx_times(4, domain)),
           fx_times(2, path))

\* The score of a result, from its Features and the length of its url.
score_of_features(features, url_len) ==
    fx_div(fx_mul(match_score_of(to_fixed(features.title_match.score),
                                 to_fixed(features.extract_match.score),
                                 to_fixed(features.domain_match.score),
                                 to_fixed(features.path_match.score)),
                  Fx(exp_decay(url_len))),
           10)

score_result(regex, search_result, total_possible_length, n_unique_terms) ==
    score_of_features(
        get_features(regex, search_result, total_possible_length, n_unique_terms),
        Len(search_result.url))


-----------------------------------------------------------------------------
(* RankingSession: Ranker::new, add_search_result, rank *)

\* A slip that compares a with b, which sorts ascending.
compare_ascending(a, b) == partial_cmp(a.score, b.score)

\* The closure of sort_by: |a, b| b.1.partial_cmp(&a.1)
compare(a, b) == partial_cmp(b.score, a.score)

\* slice::sort_by is a stable sort: each element is placed before the first
\* element that the comparison orders strictly after it.
RECURSIVE insert_sorted(_, _, _)
insert_sorted(sorted, x, i) ==
    IF i > Len(sorted) THEN Append(sorted, x)
    ELSE IF compare(x, sorted[i]) = "Less"
        THEN SubSeq(sorted, 1, i - 1) \o <<x>> \o SubSeq(sorted, i, Len(sorted))
    ELSE insert_sorted(sorted, x, i + 1)

RECURSIVE sort_by(_, _, _)
sort_by(v, k, sorted) ==
    IF k > Len(v) THEN sorted
    ELSE sort_by(v, k + 1, insert_sorted(sorted, v[k], 1))

\* serde_wasm_bindgen::to_value of one &SearchResult: a JS object holding the
\* three strings (impl Serialize for SearchResult).
serialize(result) ==
    [tag |-> "object", url |-> result.url, title |-> result.title,
     extract |-> result.extract]

\* The orders in which a HashSet of terms may be iterated.  Every order is
\* explored for sets of at most MaxShuffledTerms terms, one order for larger sets.
MaxShuffledTerms == 3

\* The words' escaped forms, each at its first occurrence.
first_occurrences(words) ==
    ConcatRange(LAMBDA k : IF \E j \in 1..(k - 1) : words[j] = words[k] THEN <<>>
                           ELSE <<regex_escape(words[k])>>,
                1, Len(words))

IterationOrders(q) ==
    LET S == unique_query_terms(q)
    IN  IF Cardinality(S) <= MaxShuffledTerms
        THEN {f \in [1..Cardinality(S) -> S] :
                  \A i, j \in 1..Cardinality(S) : i # j => f[i] # f[j]}
        ELSE {first_occurrences(split_whitespace(q))}

Init ==
    /\ pc = "start"
    /\ query = <<>>
    /\ total_possible_match_length = 0
    /\ num_unique_terms = 0
    /\ query_regex = <<>>
    /\ search_results = <<>>
    /\ raw_inputs = <<>>
    /\ scored_results = <<>>
    /\ all_features = <<>>
    /\ ranked = <<>>
    /\ last_op = "none"
    /\ rank_calls = 0

\* Ranker::new(query).  The pattern of escaped terms always compiles, so the
\* unwrap of Regex::new does not fail.
NewRanker(q) ==
    /\ pc = "start"
    /\ \E terms \in IterationOrders(q) :
          LET compiled == get_query_regex(terms)
          IN  /\ query_regex' = compiled.regex
              /\ num_unique_terms' = compiled.num_unique_terms
              /\ total_possible_match_length' = compiled.term_length_sum
    /\ query' = q
    /\ search_results' = <<>>
    /\ pc' = "live"
    /\ last_op' = "new"
    /\ UNCHANGED <<raw_inputs, scored_results, all_features, ranked, rank_calls>>

\* Ranker::add_search_result(url, title, extract).  The values rank() built
\* and returned belong to the earlier call and are dropped from the state.
AddSearchResult(url, title, extract) ==
    /\ pc = "live"
    /\ IF SearchResult_new_ok(url, title, extract)
       THEN /\ search_results' =
                   Append(search_results, SearchResult_new(url, title, extract))
            /\ raw_inputs' = Append(raw_inputs,
                   [url |-> url, title |-> title, extract |-> extract])
            /\ pc' = pc
       ELSE /\ pc' = "panicked"
            /\ UNCHANGED <<search_results, raw_inputs>>
    /\ scored_results' = <<>>
    /\ all_features' = <<>>
    /\ ranked' = <<>>
    /\ last_op' = "add"
    /\ rank_calls' = 0
    /\ UNCHANGED <<query, total_possible_match_length, num_unique_terms, query_regex>>

\* The Features that get_features builds for each result during rank().
features_of(results) ==
    MapRange(LAMBDA i : get_features(query_regex, results[i],
                            total_possible_match_length, num_unique_terms),
             Len(results))

\* The Vec<(&SearchResult, f32)> that rank() collects, given the Features of
\* each result (score_result is score_of_features of get_features): a
\* reference is the result's position in search_results, counted from 0.
scored(results, features) ==
    MapRange(LAMBDA i : [ref   |-> i - 1,
                         score |-> score_of_features(features[i], Len(results[i].url))],
             Len(results))

\* The JsValue of the ranked references: an array of serialized results.
to_value(results, sorted) ==
    MapRange(LAMBDA k : serialize(results[sorted[k].ref + 1]), Len(sorted))

\* What one call of rank() computes: the Features per result, the sorted
\* Vec, the JsValue, and whether the unwrap of partial_cmp panics, which it
\* does on a NaN score as soon as the sort compares two elements.
rank_outcome(results) ==
    LET features == features_of(results)
        unsorted == scored(results, features)
        sorted   == sort_by(unsorted, 1, <<>>)
    IN  IF Len(results) >= 2 /\ \E i \in 1..Len(results) : unsorted[i].score.class = "nan"
        THEN [panics |-> TRUE, features |-> <<>>, sorted |-> <<>>, value |-> <<>>]
        ELSE [panics |-> FALSE, features |-> features, sorted |-> sorted,
              value |-> to_value(results, sorted)]

\* A slip that ranks the results and drains the session.
RankDraining ==
    /\ pc = "live"
    /\ \E out \in {rank_outcome(search_results)} :
          /\ all_features' = out.features
          /\ scored_results' = out.sorted
          /\ ranked' = out.value
    /\ search_results' = <<>>
    /\ last_op' = "rank"
    /\ rank_calls' = Min(rank_calls + 1, 2)
    /\ UNCHANGED <<pc, query, total_possible_match_length, num_unique_terms,
                   query_regex, raw_inputs>>

\* Ranker::rank(&self)
Rank ==
    /\ pc = "live"
    /\ \E out \in {rank_outcome(search_results)} :
          /\ pc' = IF out.panics THEN "panicked" ELSE pc
          /\ all_features' = out.features
          /\ scored_results' = out.sorted
          /\ ranked' = out.value
    /\ last_op' = "rank"
    /\ rank_calls' = Min(rank_calls + 1, 2)
    /\ UNCHANGED <<query, total_possible_match_length, num_unique_terms,
                   query_regex, search_results, raw_inputs>>

-----------------------------------------------------------------------------
(* Inputs *)

\* All strings over alphabet of at most n bytes.
RECURSIVE Strings(_, _)
Strings(alphabet, n) ==
    IF n <= 0 THEN {<<>>}
    ELSE LET S == Strings(alphabet, n - 1)
         IN  S \cup {Append(s, c) : s \in S, c \in alphabet}

Triple(u, t, e) == [url |-> u, title |-> t, extract |-> e]

EAcute == <<"xC3", "xA9">>
IDot   == <<"xC4", "xB0">>
Euro   == <<"xE2", "x82", "xAC">>

UrlAB     == HttpsPrefix \o <<"a", ".", "b", "/">>
UrlBA     == HttpsPrefix \o <<"b", ".", "a">>
UrlUpper  == HttpsPrefix \o <<"A", ".", "a", "/", "B", "/", "a">>
UrlPlus   == HttpsPrefix \o <<"b", "/", "a", "+", "b", "/", "a">>
UrlNoHost == HttpsPrefix
UrlPlain  == <<"a", " ", "b">>

QueryUrl    == <<"u", "r", "l">>
QueryWebWeb == <<"w", "e", "b", " ", "w", "e", "b">>
TitleUrl    == <<" ", "U", "R", "L">>

(* The session: a few queries, several results. *)

MaxResults == 3

SessionQueries == {<<>>, <<"a">>, <<"a", " ", "b">>}

SessionResults ==
    {Triple(UrlAB, <<"a">>, <<>>),
     Triple(UrlAB, <<"b", " ", "a">>, <<>>),
     Triple(UrlAB, <<"a">>, <<"a", " ", "b">>),
     Triple(UrlPlain, <<"a">>, <<>>),
     Triple(UrlPlain, <<"b", " ", "a">>, <<"a", " ", "b">>)}

Next ==
    \/ \E q \in SessionQueries : NewRanker(q)
    \/ \E r \in SessionResults :
          /\ Len(search_results) < MaxResults
          /\ AddSearchResult(r.url, r.title, r.extract)
    \/ Rank

Spec == Init /\ [][Next]_vars


(* The query compiler alone: every short query, and queries whose term     *)
(* count or summed term length passes 255.                                 *)

MaxQueryLen == 4
ManyTermsMax == 257
LongTermMax == 257

\* The numeral of i >= 1 in base 4 over the digits a, b, c, d.
RECURSIVE Numeral(_)
Numeral(i) ==
    LET digit == <<"a", "b", "c", "d">>[(i % 4) + 1]
    IN  IF i < 4 THEN <<digit>> ELSE Append(Numeral(i \div 4), digit)

\* n distinct terms: the numerals of 1..n, separated by single spaces.
ManyTerms(n) ==
    ConcatRange(LAMBDA i : IF i = 1 THEN Numeral(i) ELSE <<" ">> \o Numeral(i), 1, n)

CompileQueries ==
    Strings({"a", "B", " ", "+"}, MaxQueryLen)
        \cup {QueryWebWeb}
        \cup {ManyTerms(n) : n \in (ManyTermsMax - 2)..ManyTermsMax}
        \cup {Rep("a", n) : n \in (LongTermMax - 3)..LongTermMax}
        \cup {Rep("+", n) : n \in {127, 128}}

NextCompile == \E q \in CompileQueries : NewRanker(q)

SpecCompile == Init /\ [][NextCompile]_vars

(* The normalizer alone: one field at a time runs from just under its      *)
(* bound to just over it, ending in one-, two- and three-byte characters.  *)

MaxTailChars == 2

RECURSIVE CharStrings(_)
CharStrings(n) ==
    IF n <= 0 THEN {<<>>}
    ELSE LET S == CharStrings(n - 1)
         IN  S \cup {s \o c : s \in S, c \in {<<"a">>, EAcute, Euro}}

\* Strings of bytes around the length `bound`.
Around(bound) ==
    {Rep("a", n) \o tail : n \in (bound - 3)..(bound + 1), tail \in CharStrings(MaxTailChars)}

NormalizeInputs ==
    {Triple(u, <<"a">>, <<>>) : u \in Around(MAX_URL_LENGTH)}
        \cup {Triple(UrlAB, t, <<>>) : t \in Around(MAX_TITLE_LENGTH)}
        \cup {Triple(UrlAB, <<"a">>, e) : e \in Around(MAX_EXTRACT_LENGTH)}

NextNormalize ==
    \/ NewRanker(<<"a">>)
    \/ \E r \in NormalizeInputs :
          /\ search_results = <<>>
          /\ AddSearchResult(r.url, r.title, r.extract)

SpecNormalize == Init /\ [][NextNormalize]_vars

(* The feature extractor: one result per session, every short query        *)
(* against every short title, and chosen urls, extracts and long terms.    *)

MaxFeatureQueryLen == 2
MaxTextLen == 3

FeatureQueries ==
    Strings({"a", "b", " "}, MaxFeatureQueryLen)
        \cup {QueryUrl, <<"B">>, <<"a", "B">>, <<"c", "o", "m">>, <<"_">>,
              <<"a", " ", "b">>, <<"b", " ", "a", " ", "b">>,
              <<"a", "+", "b", " ", "a">>, EAcute, <<"i">>}
        \cup {Rep("a", n) : n \in 141..151}
        \cup {Rep("a", n) \o <<" ", "b">> : n \in {148, 149}}

FeatureTitles ==
    Strings({"a", "B", " "}, MaxTextLen)
        \cup {TitleUrl, <<"a", " ", "B", " ", "a">>, <<"b", " ", "a", " ", "b", " ", "b">>,
              <<"a", "+", "b", " ", "a">>, EAcute \o <<" ", "a">>,
              <<"a">> \o EAcute, Euro \o <<"a">>, <<" ", "b">>, <<" ", " ", " ", "b">>}

FeatureUrls == {UrlAB, UrlBA, UrlUpper, UrlPlus, UrlNoHost, UrlPlain, <<>>}

FeatureExtracts ==
    {<<>>, <<"a", " ", "b">>, Rep(" ", 198) \o <<" ", "a">>,
     ConcatRange(LAMBDA i : IDot, 1, 99) \o <<" ", "a">>,
     ConcatRange(LAMBDA i : IDot, 1, 85) \o <<" ", "a">>}

FeatureResults ==
    {Triple(UrlAB, t, <<>>) : t \in FeatureTitles}
        \cup {Triple(u, <<"a">>, <<>>) : u \in FeatureUrls}
        \cup {Triple(UrlPlain, <<"B">>, e) : e \in FeatureExtracts}

NextFeatures ==
    \/ \E q \in FeatureQueries : NewRanker(q)
    \/ \E r \in FeatureResults :
          /\ search_results = <<>>
          /\ AddSearchResult(r.url, r.title, r.extract)
    \/ Rank

SpecFeatures == Init /\ [][NextFeatures]_vars


-----------------------------------------------------------------------------
(* Properties *)

Ranked == last_op = "rank" /\ pc = "live"

Results == 1..Len(search_results)

\* The four MatchFeatures of a Features record, in the order of the parts.
FieldsOf(features) ==
    <<features.title_match, features.extract_match,
      features.domain_match, features.path_match>>

\* The text of the k-th part of a result, lower-cased.
LowerPart(result, k) == to_lowercase(parts_of(result)[k])

HasUpper(s) == Range(s) \cap Range(AsciiUpper) # {}

Malformed(url) == ~Url_parse(url).ok

\* C1: every rank() returns original insertion indices, not copies of the
\* result records: as many as add_search_result calls were made, and a
\* permutation of 0..count-1.
C1_RankReturnsIndexPermutation ==
    Ranked =>
        /\ Len(ranked) = Len(raw_inputs)
        /\ \A k \in 1..Len(ranked) : ranked[k].tag = "number"
        /\ {ranked[k].value : k \in 1..Len(ranked)} = 0..(Len(raw_inputs) - 1)

\* C2: the output of rank() is ordered by non-increasing computed score, and
\* results of equal score keep their insertion order.
C2_RankOrderedStable ==
    Ranked =>
        /\ Len(scored_results) = Len(search_results)
        /\ Len(ranked) = Len(search_results)
        /\ {scored_results[k].ref : k \in Results} = {i - 1 : i \in Results}
        /\ \A k \in Results :
              /\ ranked[k] = serialize(search_results[scored_results[k].ref + 1])
              /\ scored_results[k].score =
                     score_result(query_regex, search_results[scored_results[k].ref + 1],
                                  total_possible_match_length, num_unique_terms)
        /\ \A i, j \in Results :
              i < j =>
                  /\ partial_cmp(scored_results[i].score, scored_results[j].score)
                         \in {"Greater", "Equal"}
                  /\ partial_cmp(scored_results[i].score, scored_results[j].score) = "Equal"
                         => scored_results[i].ref < scored_results[j].ref

\* C2 happens: three results ranked, two of them in a tie and two of them
\* out of their insertion order.
C2_Witness ==
    /\ Ranked
    /\ Len(scored_results) = 3
    /\ \E i, j \in 1..3 :
          i < j /\ partial_cmp(scored_results[i].score, scored_results[j].score) = "Equal"
    /\ \E i, j \in 1..3 : i < j /\ scored_results[i].ref > scored_results[j].ref

\* C3: rank() changes neither the query, nor its statistics, nor the
\* accumulated results, and a rank() that follows a rank() returns the same
\* output.
C3_RankIdempotentReadOnly ==
    [][(last_op' = "rank" /\ pc' = "live") =>
           /\ UNCHANGED <<query, total_possible_match_length, num_unique_terms,
                          query_regex, search_results>>
           /\ last_op = "rank" => ranked' = ranked]_vars

\* C3 happens: rank() has run twice in a row on several results.
C3_Witness == Ranked /\ rank_calls = 2 /\ Len(ranked) >= 2

\* C4: Ranker::new fails, and no session is created, when the query has no
\* term after whitespace splitting.
C4_EmptyQueryRejected ==
    (last_op = "new" /\ split_whitespace(query) = <<>>) => pc # "live"

SentinelDomain == <<"_", ".", "c", "o", "m">>

\* The domain and path features of every result with a malformed url are
\* those of scanning the texts `domain` and `path`.
MalformedScans(domain, path) ==
    \A i \in Results :
        Malformed(search_results[i].url) =>
            /\ all_features[i].domain_match =
                   text_features(query_regex, domain,
                                 total_possible_match_length, num_unique_terms)
            /\ all_features[i].path_match =
                   text_features(query_regex, path,
                                 total_possible_match_length, num_unique_terms)

\* C5 as stated: for a result whose url fails to parse the domain text that
\* is scanned is the empty string and the path text is "/", and rank()
\* completes normally.
C5_MalformedUrlScansEmptyDomain ==
    last_op = "rank" => pc = "live" /\ MalformedScans(<<>>, <<"/">>)

\* C5 as amended: for a result whose url fails to parse the domain text that
\* is scanned is the sentinel's host "_.com" and the path text is "/", and
\* rank() completes normally.
C5_MalformedUrlScansSentinel ==
    last_op = "rank" => pc = "live" /\ MalformedScans(SentinelDomain, <<"/">>)

\* C5 happens: a result with a malformed url was ranked and the query matched
\* in the sentinel's domain.
C5_Witness ==
    /\ Ranked
    /\ \E i \in Results :
          Malformed(search_results[i].url) /\ all_features[i].domain_match.num_terms >= 1

\* The number of bytes of the character that starts with byte b; 0 for a
\* byte that starts no character.
CharLen(b) ==
    IF b \in ContinuationBytes THEN 0
    ELSE IF b \in {"xC3", "xC4", "xCC"} THEN 2
    ELSE IF b = "xE2" THEN 3
    ELSE 1

\* Offset k lies strictly inside a multi-byte character of s.
InsideChar(s, k) ==
    \E d \in 1..2 : k - d >= 0 /\ k + 1 <= Len(s) /\ CharLen(s[k - d + 1]) > d

Normalized(raw, stored, bound) ==
    IF Len(raw) <= bound THEN stored = raw
    ELSE /\ Len(stored) <= bound
         /\ stored = SubSeq(raw, 1, Len(stored))
         /\ ~InsideChar(raw, Len(stored))
         /\ \A k \in (Len(stored) + 1)..bound : InsideChar(raw, k)

\* C6: normalization never fails; a field within its bound (url 200, title
\* 100, extract 200) is stored unchanged, a longer one is stored as its
\* longest prefix that ends on a character boundary within the bound.
C6_FieldsNormalized ==
    /\ pc # "panicked"
    /\ Len(search_results) = Len(raw_inputs)
    /\ \A i \in Results :
          /\ Normalized(raw_inputs[i].url, search_results[i].url, MAX_URL_LENGTH)
          /\ Normalized(raw_inputs[i].title, search_results[i].title, MAX_TITLE_LENGTH)
          /\ Normalized(raw_inputs[i].extract, search_results[i].extract, MAX_EXTRACT_LENGTH)

\* C6 happens: a url longer than its bound was cut back below the bound
\* because the bound falls inside a multi-byte character.
C6_Witness ==
    \E i \in Results :
        /\ Len(raw_inputs[i].url) > MAX_URL_LENGTH
        /\ Len(search_results[i].url) < MAX_URL_LENGTH

\* The positions of the first occurrence of every distinct token.
FirstTokens(tokens) ==
    {k \in 1..Len(tokens) : \A j \in 1..(k - 1) : tokens[j] # tokens[k]}

EscapedLen(w) == Len(w) + Cardinality({i \in 1..Len(w) : w[i] \in MetaBytes})

EscapedLenSum(tokens, first) ==
    FoldRange(LAMBDA k, acc : IF k \in first THEN acc + EscapedLen(tokens[k]) ELSE acc,
              1, Len(tokens), 0)

QueryStats(tokens, first) ==
    /\ num_unique_terms = Min(255, Cardinality(first))
    /\ total_possible_match_length = Min(255, EscapedLenSum(tokens, first))

\* C7: num_unique_terms is min(255, number of distinct whitespace-delimited
\* tokens) and total_possible_match_length is min(255, sum of the byte
\* lengths of the distinct escaped terms), whatever the repetition and the
\* order of the tokens; "web web" gives 1, 3 and \bweb\b.
C7_QueryStatsDeduplicated ==
    pc = "live" =>
        /\ \E tokens \in {split_whitespace(query)} :
              \E first \in {FirstTokens(tokens)} : QueryStats(tokens, first)
        /\ query = QueryWebWeb =>
              /\ num_unique_terms = 1
              /\ total_possible_match_length = 3
              /\ query_regex = <<"\\", "b", "w", "e", "b", "\\", "b">>

\* C7 happens: a query of more than 255 distinct terms was compiled and the
\* count saturated.
C7_Witness ==
    /\ pc = "live"
    /\ num_unique_terms = 255
    /\ Cardinality(Range(split_whitespace(query))) > 255

\* The positions of the matches whose substring no earlier match had.
NewMatches(text, matches) ==
    {k \in 1..Len(matches) :
        \A j \in 1..(k - 1) : as_str(text, matches[j]) # as_str(text, matches[k])}

MaxOf(S) == CHOOSE x \in S : \A y \in S : y <= x

NewMatchLenSum(matches, new) ==
    FoldRange(LAMBDA k, acc :
                  IF k \in new THEN acc + (matches[k].end - matches[k].start) ELSE acc,
              1, Len(matches), 0)

DistinctMatchCounts(f, matches, new) ==
    /\ f.num_terms = Min(255, Cardinality(new))
    /\ f.length = Min(255, NewMatchLenSum(matches, new))
    /\ f.last_char = Min(255, IF new = {} THEN 1 ELSE matches[MaxOf(new)].end)

FieldCountsDistinct(text, f) ==
    \E matches \in {find_iter(query_regex, text)} :
        \E new \in {NewMatches(text, matches)} : DistinctMatchCounts(f, matches, new)

\* C8: in each field every distinct matched substring is counted once:
\* num_terms is the number of distinct matched substrings, length the sum of
\* their byte lengths, last_char the end offset of the last match that
\* introduced a new substring (1 when nothing matched), each saturated to 255;
\* query "url" against title " URL" gives 1, 3 and 4.
C8_DistinctMatchesCounted ==
    Ranked =>
        \A i \in Results :
            /\ \A k \in 1..4 :
                  FieldCountsDistinct(LowerPart(search_results[i], k),
                                      FieldsOf(all_features[i])[k])
            /\ (query = QueryUrl /\ search_results[i].title = TitleUrl) =>
                  /\ all_features[i].title_match.length = 3
                  /\ all_features[i].title_match.last_char = 4
                  /\ all_features[i].title_match.num_terms = 1

\* C8 happens: a title had a repeated match after its last new substring, so
\* that last_char lies before the end of the last match.
C8_Witness ==
    /\ Ranked
    /\ \E i \in Results :
          \E matches \in {find_iter(query_regex, LowerPart(search_results[i], 1))} :
              /\ Len(matches) >= 3
              /\ all_features[i].title_match.num_terms = 2
              /\ all_features[i].title_match.last_char < matches[Len(matches)].end

\* Every field of every ranked result has matched length at most the total
\* possible length, last_char at least 1 and a field score of one of the
\* given classes; no result score is NaN.
FieldScoresIn(classes) ==
    /\ pc = "live"
    /\ \A i \in Results :
          /\ scored_results[i].score # FxNaN
          /\ \A k \in 1..4 :
                \E f \in {FieldsOf(all_features[i])[k]} :
                    /\ f.length <= total_possible_match_length
                    /\ f.last_char >= 1
                    /\ f.score.exp <= 0
                    /\ f.score.class \in classes
                    /\ f.score.class = "zero" =>
                          total_possible_match_length - f.length >= 143

\* C9 as stated: with a query of at least one term, every field has matched
\* length <= total possible length and last_char >= 1, and its score
\* 2^(length - total) / last_char is a finite value in (0, 1]; no NaN reaches
\* the comparison of rank().
C9_FieldScoreStrictlyPositive ==
    (last_op = "rank" /\ num_unique_terms >= 1) => FieldScoresIn({"pos"})

\* C9 as amended: with a query of at least one term, every field has matched
\* length <= total possible length and last_char >= 1, and its score, stored
\* in single precision, is a finite value in [0, 1], which is 0 only when the
\* total possible length exceeds the matched length by 143 or more; no NaN
\* reaches the comparison of rank().
C9_FieldScoreFiniteInUnit ==
    (last_op = "rank" /\ num_unique_terms >= 1) => FieldScoresIn({"pos", "zero"})

\* C9 happens: a field score of a ranked result underflowed to 0.
C9_Witness ==
    /\ Ranked
    /\ num_unique_terms >= 1
    /\ \E i \in Results : all_features[i].title_match.score.class = "zero"

\* The features of every ranked result are those of scanning the four texts
\* that `Texts` gives for the result.
FeaturesScan(Texts(_)) ==
    \A i \in Results :
        \A k \in 1..4 :
            FieldsOf(all_features[i])[k] =
                text_features(query_regex, Texts(search_results[i])[k],
                              total_possible_match_length, num_unique_terms)

\* No term of the query that has an upper-case letter is a matched substring
\* of part k of any result.
UpperTermsNeverMatch(k) ==
    \A i \in Results :
        \E text \in {LowerPart(search_results[i], k)} :
            \E matches \in {find_iter(query_regex, text)} :
                \A n \in 1..Len(matches) :
                    ~(HasUpper(as_str(text, matches[n]))
                        /\ as_str(text, matches[n]) \in Range(split_whitespace(query)))

TextsUrlAsParsed(result) ==
    <<to_lowercase(result.title), to_lowercase(result.extract),
      url_domain(result.url), url_path(result.url)>>

TextsAllLower(result) ==
    <<to_lowercase(result.title), to_lowercase(result.extract),
      to_lowercase(url_domain(result.url)), to_lowercase(url_path(result.url))>>

=============================================================================
